---- MODULE Spec2Model ----
(***************************************************************************)
(* A model of render_time_series.main: one run of the time-lapse renderer. *)
(* Instants are whole minutes since 1970-01-01T00:00Z (the file names      *)
(* carry minute precision).  A text (a file name, the bounds argument) is   *)
(* a sequence of Unicode code points, so that its slicing, stripping,      *)
(* splitting and int() conversion are modelled as the code performs them.  *)
(***************************************************************************)
EXTENDS Integers, Sequences, FiniteSets, TLC

(***************************************************************************)
(* Bounds of the model.                                                    *)
(***************************************************************************)
\* Largest number of files the source directory holds.
MaxFiles == 3
\* Largest end_time - start_time, in minutes.
MaxSpan == 3
\* Largest sampling interval, in minutes.
MaxFreq == 2

(***************************************************************************)
(* Python helpers: slicing and int().                                      *)
(***************************************************************************)
Min(a, b) == IF a < b THEN a ELSE b
Max(a, b) == IF a > b THEN a ELSE b
Abs(a) == IF a < 0 THEN -a ELSE a

\* A character is its Unicode code point; a text is a sequence of them.
\* The printable ASCII characters from the blank (32) to the underscore
\* (95), and from "a" (97) to the tilde (126).
AsciiUpper ==
    <<" ", "!", "\"", "#", "$", "%", "&", "'", "(", ")", "*", "+",
      ",", "-", ".", "/", "0", "1", "2", "3", "4", "5", "6", "7",
      "8", "9", ":", ";", "<", "=", ">", "?", "@", "A", "B", "C",
      "D", "E", "F", "G", "H", "I", "J", "K", "L", "M", "N", "O",
      "P", "Q", "R", "S", "T", "U", "V", "W", "X", "Y", "Z", "[",
      "\\", "]", "^", "_">>
AsciiLower ==
    <<"a", "b", "c", "d", "e", "f", "g", "h", "i", "j", "k", "l",
      "m", "n", "o", "p", "q", "r", "s", "t", "u", "v", "w", "x",
      "y", "z", "{", "|", "}", "~">>

\* ord(c) of a one-character string: one of those characters, or one of the
\* escapes \t, \n, \f, \r.
Ord(c) ==
    CASE c = "\t" -> 9
      [] c = "\n" -> 10
      [] c = "\f" -> 12
      [] c = "\r" -> 13
      [] \E i \in 1..Len(AsciiUpper) : AsciiUpper[i] = c ->
            31 + (CHOOSE i \in 1..Len(AsciiUpper) : AsciiUpper[i] = c)
      [] OTHER ->
            96 + (CHOOSE i \in 1..Len(AsciiLower) : AsciiLower[i] = c)

\* The text spelled by a sequence of one-character strings.
Encode(chars) == [i \in 1..Len(chars) |-> Ord(chars[i])]

\* The characters int() strips from both ends: the ASCII whitespace
\* \t \n \v \f \r and the blank, and the Unicode spaces U+0085, U+00A0,
\* U+1680, U+2000..U+200A, U+2028, U+2029, U+202F, U+205F, U+3000.
Whitespace ==
    {9, 10, 11, 12, 13, 32, 133, 160, 5760} \cup (8192..8202)
        \cup {8232, 8233, 8239, 8287, 12288}

\* The code points of the digit zero of every Unicode decimal digit system
\* (category Nd, Unicode 14.0); the digits 0..9 of a system are the ten
\* consecutive code points from its zero.
DecimalZeros ==
    {48, 1632, 1776, 1984, 2406, 2534, 2662, 2790,
     2918, 3046, 3174, 3302, 3430, 3558, 3664, 3792,
     3872, 4160, 4240, 6112, 6160, 6470, 6608, 6784,
     6800, 6992, 7088, 7232, 7248, 42528, 43216, 43264,
     43472, 43504, 43600, 44016, 65296, 66720, 68912, 69734,
     69872, 69942, 70096, 70384, 70736, 70864, 71248, 71360,
     71472, 71904, 72016, 72784, 73040, 73120, 92768, 92864,
     93008, 120782, 120792, 120802, 120812, 120822, 123200, 123632,
     125264, 130032}

IsDigit(c) == \E z \in DecimalZeros : c >= z /\ c <= z + 9
DigitVal(c) == c - (CHOOSE z \in DecimalZeros : c >= z /\ c <= z + 9)

\* The normalised (start, stop) of a Python slice [a:b] of a sequence of
\* length n: a negative index counts from the end, and both are clamped to
\* 0..n; nothing is raised for an index out of range.
PySliceIndex(i, n) == IF i < 0 THEN Max(i + n, 0) ELSE Min(i, n)
PySliceLen(a, b, n) == Max(PySliceIndex(b, n) - PySliceIndex(a, n), 0)

\* file_name[a:b]
Slice(s, a, b) ==
    LET lo == PySliceIndex(a, Len(s))
        hi == PySliceIndex(b, Len(s))
    IN  IF hi <= lo THEN << >> ELSE SubSeq(s, lo + 1, hi)

\* text.lstrip(chars)
RECURSIVE LStrip(_, _)
LStrip(s, chars) ==
    IF s # << >> /\ Head(s) \in chars THEN LStrip(Tail(s), chars) ELSE s

\* text.rstrip(chars)
RECURSIVE RStrip(_, _)
RStrip(s, chars) ==
    IF s # << >> /\ s[Len(s)] \in chars
    THEN RStrip(SubSeq(s, 1, Len(s) - 1), chars) ELSE s

\* text.strip(chars)
Strip(s, chars) == RStrip(LStrip(s, chars), chars)

\* text.split(sep) for a one-character separator: the fields between the
\* separators, always at least one.
RECURSIVE Split(_, _)
Split(s, sep) ==
    IF \A i \in 1..Len(s) : s[i] # sep THEN <<s>>
    ELSE LET at == CHOOSE i \in 1..Len(s) :
                    s[i] = sep /\ \A j \in 1..(i - 1) : s[j] # sep
         IN  <<SubSeq(s, 1, at - 1)>> \o Split(SubSeq(s, at + 1, Len(s)), sep)

RECURSIVE DigitsValue(_)
DigitsValue(s) ==
    IF s = << >> THEN 0
    ELSE LET c == s[Len(s)]
             rest == DigitsValue(SubSeq(s, 1, Len(s) - 1))
         IN  IF c = Ord("_") THEN rest ELSE 10 * rest + DigitVal(c)

\* Python's int(str): whitespace is stripped from both ends, one sign is
\* accepted, and what remains must be decimal digits (of any Unicode digit
\* system), which single underscores may group.  Any other text raises
\* ValueError (ok = FALSE).
PyInt(text) ==
    LET s == Strip(text, Whitespace)
        signed == s # << >> /\ Head(s) \in {Ord("+"), Ord("-")}
        d == IF signed THEN Tail(s) ELSE s
        wellFormed ==
            /\ d # << >>
            /\ IsDigit(d[1])
            /\ IsDigit(d[Len(d)])
            /\ \A i \in 1..Len(d) : IsDigit(d[i]) \/ d[i] = Ord("_")
            /\ \A i \in 1..(Len(d) - 1) :
                ~(d[i] = Ord("_") /\ d[i + 1] = Ord("_"))
    IN  IF ~wellFormed THEN [ok |-> FALSE, val |-> 0]
        ELSE [ok |-> TRUE,
              val |-> IF signed /\ Head(s) = Ord("-")
                      THEN -DigitsValue(d) ELSE DigitsValue(d)]

\* Line 29: tuple(int(i) for i in bounds.strip(" \t()").split(",")).  A
\* field int() rejects raises ValueError (ok = FALSE); otherwise the tuple
\* has one value per field, however many there are.
ParseBoundsText(bounds) ==
    LET fields ==
            Split(Strip(bounds, {Ord(" "), Ord("\t"), Ord("("), Ord(")")}),
                  Ord(","))
        values == [i \in 1..Len(fields) |-> PyInt(fields[i])]
    IN  IF \A i \in 1..Len(fields) : values[i].ok
        THEN [ok |-> TRUE, val |-> [i \in 1..Len(fields) |-> values[i].val]]
        ELSE [ok |-> FALSE, val |-> << >>]

(***************************************************************************)
(* pd.Timestamp(year=, month=, day=, hour=, minute=, tz=utc).              *)
(***************************************************************************)
IsLeap(y) == (y % 4 = 0) /\ ((y % 100 # 0) \/ (y % 400 = 0))

DaysInMonth(y, m) ==
    IF m = 2 THEN (IF IsLeap(y) THEN 29 ELSE 28)
    ELSE IF m \in {4, 6, 9, 11} THEN 30 ELSE 31

RECURSIVE DaysBeforeMonth(_, _)
DaysBeforeMonth(y, m) ==
    IF m <= 1 THEN 0 ELSE DaysBeforeMonth(y, m - 1) + DaysInMonth(y, m - 1)

DaysBeforeYear(y) ==
    365 * (y - 1) + ((y - 1) \div 4) - ((y - 1) \div 100) + ((y - 1) \div 400)

\* Days from 1970-01-01 to the given civil date.
EpochDays(y, m, d) ==
    (DaysBeforeYear(y) + DaysBeforeMonth(y, m) + d)
        - (DaysBeforeYear(1970) + 1)

\* The fields must form a datetime (year 1..9999, a day of the month, a time
\* of day), and the instant must fit pandas' 64-bit nanosecond range,
\* 1677-09-21T00:12:43.145 .. 2262-04-11T23:47:16.854; otherwise the
\* constructor raises (ok = FALSE).  val is in minutes since the epoch.
Timestamp(year, month, day, hour, minute) ==
    LET fieldsOk ==
            /\ year >= 1 /\ year <= 9999
            /\ month >= 1 /\ month <= 12
            /\ day >= 1 /\ day <= DaysInMonth(year, month)
            /\ hour >= 0 /\ hour <= 23
            /\ minute >= 0 /\ minute <= 59
        days == EpochDays(year, month, day)
        daysOk == days >= -106752 /\ days <= 106751
        mins == days * 1440 + hour * 60 + minute
    IN  IF fieldsOk /\ daysOk /\ mins >= -153722867 /\ mins <= 153722867
        THEN [ok |-> TRUE, val |-> mins]
        ELSE [ok |-> FALSE, val |-> 0]

\* The body of the indexing loop for one file name: five slices of the
\* name, each through int(), then the Timestamp constructor.
ParseFileName(file_name) ==
    LET year == PyInt(Slice(file_name, 0, 4))
        month == PyInt(Slice(file_name, 4, 6))
        day == PyInt(Slice(file_name, 6, 8))
        hour == PyInt(Slice(file_name, 8, 10))
        minute == PyInt(Slice(file_name, 10, 12))
    IN  IF year.ok /\ month.ok /\ day.ok /\ hour.ok /\ minute.ok
        THEN Timestamp(year.val, month.val, day.val, hour.val, minute.val)
        ELSE [ok |-> FALSE, val |-> 0]


(***************************************************************************)
(* The inputs of a run.                                                    *)
(***************************************************************************)
\* 202401010000.jpg: 2024-01-01T00:00
NameA ==
    Encode(<<"2", "0", "2", "4", "0", "1", "0", "1",
             "0", "0", "0", "0", ".", "j", "p", "g">>)
\* 202401010010.jpg: 2024-01-01T00:10
NameB ==
    Encode(<<"2", "0", "2", "4", "0", "1", "0", "1",
             "0", "0", "1", "0", ".", "j", "p", "g">>)
\* 202401010004.jpg: 2024-01-01T00:04
NameC ==
    Encode(<<"2", "0", "2", "4", "0", "1", "0", "1",
             "0", "0", "0", "4", ".", "j", "p", "g">>)
\* 202401010000b.jpg: the same minute as NameA
NameA2 ==
    Encode(<<"2", "0", "2", "4", "0", "1", "0", "1",
             "0", "0", "0", "0", "b", ".", "j", "p", "g">>)
\* 2024 1010002.jpg: a blank where the month's first digit belongs
NameBlank ==
    Encode(<<"2", "0", "2", "4", " ", "1", "0", "1",
             "0", "0", "0", "2", ".", "j", "p", "g">>)
\* 202401.jpg: ten characters, six digits only
NameShort ==
    Encode(<<"2", "0", "2", "4", "0", "1", ".", "j", "p", "g">>)
\* 202402300000.jpg: the 30th of February
NameBadDate ==
    Encode(<<"2", "0", "2", "4", "0", "2", "3", "0",
             "0", "0", "0", "0", ".", "j", "p", "g">>)
\* 2024<TAB>101000<U+0666>.jpg: a tab where the month's first digit belongs,
\* and the minute's last digit an Arabic-Indic six; int() reads month 1
\* and minute 6
NameTab ==
    <<Ord("2"), Ord("0"), Ord("2"), Ord("4"), Ord("\t"), Ord("1"), Ord("0"),
      Ord("1"), Ord("0"), Ord("0"), Ord("0"), 1638, Ord("."), Ord("j"),
      Ord("p"), Ord("g")>>
\* 202401010012.jpg: 2024-01-01T00:12; the content is no JPEG
NameCorrupt ==
    Encode(<<"2", "0", "2", "4", "0", "1", "0", "1",
             "0", "0", "1", "2", ".", "j", "p", "g">>)

\* A file of the source directory: its name, and what plt.imread makes of
\* its content: a decode error, or an array of height x width pixels, of
\* three channels (shape (H, W, 3)) for a colour JPEG and of one (shape
\* (H, W)) for a greyscale JPEG.
File(name, decodable, height, width, channels) ==
    [name |-> name, decodable |-> decodable, height |-> height,
     width |-> width, channels |-> channels]

\* NameC is a small colour image and NameTab a small greyscale one.
FilePool ==
    {File(NameA, TRUE, 4, 6, 3), File(NameB, TRUE, 4, 6, 3),
     File(NameC, TRUE, 2, 3, 3), File(NameA2, TRUE, 4, 6, 3),
     File(NameBlank, TRUE, 4, 6, 3), File(NameTab, TRUE, 2, 3, 1),
     File(NameShort, TRUE, 4, 6, 3),
     File(NameBadDate, TRUE, 4, 6, 3), File(NameCorrupt, FALSE, 0, 0, 0)}

Directories == {d \in SUBSET FilePool : Cardinality(d) <= MaxFiles}

\* The orders in which glob may list a directory.
Listings(dir) ==
    {l \in [1..Cardinality(dir) -> dir] :
        \A i, j \in 1..Cardinality(dir) : i # j => l[i] # l[j]}

\* 2024-01-01T00:00Z
T0 == Timestamp(2024, 1, 1, 0, 0).val

StartOffsets == {-2, 0, 5, 11}
StartTimes == {T0 + a : a \in StartOffsets}
EndTimes(start) == {start + d : d \in (-1)..MaxSpan}
SampleFreqs == 1..MaxFreq

\* img_bounds when the bounds argument is None.
NoBounds == << >>

\* The bounds argument: None, or a text.
NoneArg == [none |-> TRUE, text |-> << >>]
TextArg(chars) == [none |-> FALSE, text |-> Encode(chars)]

\* None, "(1,1,3,2)", "(1, 1,5,3)", "(3,1,8,2)", "(1,2,x,4)" and "(1,2)".
\* The second lies within every raster of the pool; the third exceeds the
\* small rasters; the fourth exceeds the width of every raster, and lies
\* wholly beyond the small ones (x0 = 3 = W).
BoundsArgs ==
    {NoneArg,
     TextArg(<<"(", "1", ",", "1", ",", "3", ",", "2", ")">>),
     TextArg(<<"(", "1", ",", " ", "1", ",", "5", ",", "3", ")">>),
     TextArg(<<"(", "3", ",", "1", ",", "8", ",", "2", ")">>),
     TextArg(<<"(", "1", ",", "2", ",", "x", ",", "4", ")">>),
     TextArg(<<"(", "1", ",", "2", ")">>)}

(***************************************************************************)
(* pandas: sort_index, date_range and Index.get_loc(method="nearest").     *)
(***************************************************************************)
IsMonotonicIncreasing(index) ==
    \A i \in 1..(Len(index) - 1) : index[i] <= index[i + 1]

IsUnique(index) ==
    \A i, j \in 1..Len(index) : i # j => index[i] # index[j]

\* The index column of the frame: the rows' timestamps.
IndexOf(rows) == [i \in 1..Len(rows) |-> rows[i].ts]

Orderings(n) ==
    {p \in [1..n -> 1..n] : \A i, j \in 1..n : i # j => p[i] # p[j]}

\* The mutation of SortIndex that leaves the rows in listing order.
SortIndexSkipped(rows) == {rows}

\* image_df.sort_index(inplace=True): rows already in order are left as they
\* are; otherwise the rows are reordered by timestamp with numpy's quicksort,
\* which fixes no order among rows of equal timestamp.
SortIndex(rows) ==
    IF IsMonotonicIncreasing(IndexOf(rows)) THEN {rows}
    ELSE {s \in {[i \in 1..Len(rows) |-> rows[p[i]]] :
                    p \in Orderings(Len(rows))} :
            IsMonotonicIncreasing(IndexOf(s))}

\* pd.date_range(start, end, freq) for a fixed interval of freq minutes:
\* start, start + freq, ... up to and including end; empty when end < start.
DateRange(start, end, freq) ==
    IF end < start THEN << >>
    ELSE [i \in 1..((end - start) \div freq + 1) |-> start + (i - 1) * freq]

\* values[i] with numpy's indexing: a negative position counts from the end.
At(index, i) == IF i < 0 THEN index[Len(index) + i + 1] ELSE index[i + 1]

\* get_indexer(method="pad"): the position (from 0) of the last entry <= t,
\* or -1.
PadIndexer(index, t) ==
    LET at == {i \in 1..Len(index) : index[i] <= t}
    IN  IF at = {} THEN -1
        ELSE (CHOOSE i \in at : \A j \in at : j <= i) - 1

\* get_indexer(method="backfill"): the position of the first entry >= t,
\* or -1.
BackfillIndexer(index, t) ==
    LET at == {i \in 1..Len(index) : index[i] >= t}
    IN  IF at = {} THEN -1
        ELSE (CHOOSE i \in at : \A j \in at : i <= j) - 1

\* The mutation of NearestOp that keeps the left neighbour on a tie.
NearestOpLe(index, l, r) == l <= r

\* _get_nearest_indexer's comparison of the two distances: operator.lt for
\* an increasing index (a tie goes to the right neighbour), operator.le
\* otherwise.
NearestOp(index, l, r) ==
    IF IsMonotonicIncreasing(index) THEN l < r ELSE l <= r

\* index.get_loc(t, method="nearest"): raises (ok = FALSE) on an index with
\* a repeated value (InvalidIndexError), on an index that is not sorted
\* (ValueError), and when no position is found (KeyError: the empty index).
\* Otherwise the pad and backfill neighbours of t are compared by distance.
GetLoc(index, t) ==
    IF ~IsUnique(index) \/ ~IsMonotonicIncreasing(index) \/ Len(index) = 0
    THEN [ok |-> FALSE, loc |-> -1]
    ELSE LET left == PadIndexer(index, t)
             right == BackfillIndexer(index, t)
             left_distance == Abs(At(index, left) - t)
             right_distance == Abs(At(index, right) - t)
             loc == IF NearestOp(index, left_distance, right_distance)
                       \/ right = -1
                    THEN left ELSE right
         IN  IF loc = -1 THEN [ok |-> FALSE, loc |-> -1]
             ELSE [ok |-> TRUE, loc |-> loc]

(***************************************************************************)
(* numpy and matplotlib: the crop and the writer's context manager.        *)
(***************************************************************************)
\* The mutation of Crop that yields the requested rectangle unclamped.
CropUnclamped(bounds, raster) ==
    [path |-> raster.path,
     height |-> bounds[4] - bounds[2], width |-> bounds[3] - bounds[1],
     channels |-> raster.channels]

\* satellite_image[y0:y1, x0:x1]: a numpy slice, which clamps each end to
\* the raster and never raises; the region may have no rows or no columns.
\* The channel axis is not sliced.
Crop(bounds, raster) ==
    [path |-> raster.path,
     height |-> PySliceLen(bounds[2], bounds[4], raster.height),
     width |-> PySliceLen(bounds[1], bounds[3], raster.width),
     channels |-> raster.channels]

\* img_axes.imshow(array): whether the array is accepted.  For an array of
\* three dimensions (colour) set_data compares array.min() and array.max()
\* with the valid range, and numpy raises ValueError for the minimum of an
\* array of no elements; an array of two dimensions (greyscale) is not
\* reduced there, and an image of no elements is passed over when the
\* figure is drawn.
Imshow(array) ==
    ~(array.channels = 3 /\ array.height * array.width = 0)

\* The mutation of SavingExit that finishes the writer only on a normal exit.
SavingExitNoFinally(sink, raised) ==
    IF sink = "open" /\ ~raised THEN "closed" ELSE sink

\* Leaving the block of "with file_writer.saving(...)": the context manager
\* calls finish() in a finally clause, on a normal exit and on an exception.
SavingExit(sink, raised) == IF sink = "open" THEN "closed" ELSE sink

(***************************************************************************)
(* The state of a run of main.  An argument of main is drawn by the step   *)
(* that first reads it; it does not change afterwards.                     *)
(***************************************************************************)
VARIABLES
    pc,              \* the statement main is at
    img_bounds,      \* the parsed bounds, or NoBounds
    directory,       \* the files of image_file_path
    image_list,      \* glob's listing, in the order glob gave it
    image_index,     \* the timestamps parsed so far, in listing order
    image_df,        \* the frame's rows (timestamp, path), in index order
    start_time, end_time, sample_freq,
    time_range,      \* the sample grid
    sink,            \* the writer: "unopened", "open" or "closed"
    setups,          \* how many times the writer was set up
    k,               \* the position in time_range of the current grid point
    loc,             \* the position get_loc returned (line 69's image_index)
    satellite_image, \* the decoded raster
    canvas,          \* what img_axes and text_axes hold
    frames,          \* the frames the writer has grabbed, in order
    error            \* the exception that ended the run, or "none"

vars ==
    <<pc, img_bounds, directory, image_list, image_index, image_df,
      start_time, end_time, sample_freq, time_range, sink, setups, k, loc,
      satellite_image, canvas, frames, error>>

NoRaster == [path |-> << >>, height |-> 0, width |-> 0, channels |-> 0]
ClearCanvas == [image |-> << >>, text |-> << >>]

Init ==
    /\ pc = "bounds"
    /\ img_bounds = NoBounds
    /\ directory = {}
    /\ image_list = << >>
    /\ image_index = << >>
    /\ image_df = << >>
    /\ start_time = 0
    /\ end_time = 0
    /\ sample_freq = 1
    /\ time_range = << >>
    /\ sink = "unopened"
    /\ setups = 0
    /\ k = 0
    /\ loc = 0
    /\ satellite_image = NoRaster
    /\ canvas = ClearCanvas
    /\ frames = << >>
    /\ error = "none"

\* Lines 27-29: the bounds argument; None leaves img_bounds None, a text is
\* parsed, and a ValueError leaves main.
ParseBounds ==
    /\ pc = "bounds"
    /\ \E bounds \in BoundsArgs :
        LET parsed == ParseBoundsText(bounds.text)
        IN  IF bounds.none
            THEN /\ img_bounds' = NoBounds
                 /\ pc' = "glob"
                 /\ UNCHANGED error
            ELSE IF parsed.ok
            THEN /\ img_bounds' = parsed.val
                 /\ pc' = "glob"
                 /\ UNCHANGED error
            ELSE /\ pc' = "failed"
                 /\ error' = "bounds"
                 /\ UNCHANGED img_bounds
    /\ UNCHANGED <<directory, image_list, image_index, image_df, start_time,
                   end_time, sample_freq, time_range, sink, setups, k, loc,
                   satellite_image, canvas, frames>>

\* Lines 33-34: the listing of the directory.
Glob ==
    /\ pc = "glob"
    /\ \E dir \in Directories :
        \E listing \in Listings(dir) :
            /\ directory' = dir
            /\ image_list' = listing
    /\ image_index' = << >>
    /\ pc' = "index"
    /\ UNCHANGED <<img_bounds, image_df, start_time, end_time, sample_freq,
                   time_range, sink, setups, k, loc, satellite_image, canvas,
                   frames, error>>

\* Lines 35-45, one pass of the loop: the next file's name is parsed and its
\* timestamp appended; a ValueError leaves main.
IndexFile ==
    /\ pc = "index"
    /\ Len(image_index) < Len(image_list)
    /\ LET filepath == image_list[Len(image_index) + 1]
           timestamp == ParseFileName(filepath.name)
       IN  IF timestamp.ok
           THEN /\ image_index' = Append(image_index, timestamp.val)
                /\ UNCHANGED <<pc, error>>
           ELSE /\ pc' = "failed"
                /\ error' = "filename"
                /\ UNCHANGED image_index
    /\ UNCHANGED <<img_bounds, directory, image_list, image_df, start_time,
                   end_time, sample_freq, time_range, sink, setups, k, loc,
                   satellite_image, canvas, frames>>

\* Lines 47-51: the frame of paths indexed by timestamp, then sorted.
BuildFrame ==
    /\ pc = "index"
    /\ Len(image_index) = Len(image_list)
    /\ LET rows == [i \in 1..Len(image_list) |->
                       [ts |-> image_index[i], path |-> image_list[i].name]]
       IN  \E sorted \in SortIndex(rows) : image_df' = sorted
    /\ pc' = "range"
    /\ UNCHANGED <<img_bounds, directory, image_list, image_index, start_time,
                   end_time, sample_freq, time_range, sink, setups, k, loc,
                   satellite_image, canvas, frames, error>>

\* Lines 53-57: the figure and the sample grid.  image_list and the list
\* image_index are not read after line 48 (line 69 rebinds the name
\* image_index), and are not carried further.
MakeRange ==
    /\ pc = "range"
    /\ \E start \in StartTimes :
        \E end \in EndTimes(start) :
            \E freq \in SampleFreqs :
                /\ start_time' = start
                /\ end_time' = end
                /\ sample_freq' = freq
                /\ time_range' = DateRange(start, end, freq)
    /\ image_list' = << >>
    /\ image_index' = << >>
    /\ canvas' = ClearCanvas
    /\ pc' = "saving"
    /\ UNCHANGED <<img_bounds, directory, image_df, sink, setups, k, loc,
                   satellite_image, frames, error>>

\* Lines 58-59: the writer, and entering "with file_writer.saving(...)",
\* which sets the writer up.
EnterSaving ==
    /\ pc = "saving"
    /\ sink' = "open"
    /\ setups' = setups + 1
    /\ k' = 1
    /\ pc' = "loop"
    /\ UNCHANGED <<img_bounds, directory, image_list, image_index, image_df,
                   start_time, end_time, sample_freq, time_range, loc,
                   satellite_image, canvas, frames, error>>

\* An exception inside the with block: the context manager is left, and the
\* exception leaves main.
Raise(exception) ==
    /\ pc' = "failed"
    /\ error' = exception
    /\ sink' = SavingExit(sink, TRUE)

\* The mutation of Lookup that passes over a grid point whose lookup fails.
LookupSkipping ==
    /\ pc = "loop"
    /\ k <= Len(time_range)
    /\ LET found == GetLoc(IndexOf(image_df), time_range[k])
       IN  IF found.ok
           THEN /\ loc' = found.loc
                /\ pc' = "decode"
                /\ UNCHANGED k
           ELSE /\ k' = k + 1
                /\ UNCHANGED <<loc, pc>>
    /\ canvas' = ClearCanvas
    /\ UNCHANGED <<img_bounds, directory, image_list, image_index, image_df,
                   start_time, end_time, sample_freq, time_range, setups,
                   satellite_image, frames, sink, error>>

\* Lines 60-69: the next grid point; both axes are cleared, and the row
\* nearest to the grid point is looked up.
Lookup ==
    /\ pc = "loop"
    /\ k <= Len(time_range)
    /\ LET found == GetLoc(IndexOf(image_df), time_range[k])
       IN  IF found.ok
           THEN /\ loc' = found.loc
                /\ pc' = "decode"
                /\ UNCHANGED <<sink, error>>
           ELSE /\ Raise("lookup")
                /\ UNCHANGED loc
    /\ canvas' = ClearCanvas
    /\ UNCHANGED <<img_bounds, directory, image_list, image_index, image_df,
                   start_time, end_time, sample_freq, time_range, setups, k,
                   satellite_image, frames>>

\* Line 70: plt.imread of the path in the row found.
Decode ==
    /\ pc = "decode"
    /\ LET path == image_df[loc + 1].path
           file == CHOOSE f \in directory : f.name = path
       IN  IF file.decodable
           THEN /\ satellite_image' =
                    [path |-> path, height |-> file.height,
                     width |-> file.width, channels |-> file.channels]
                /\ pc' = "compose"
                /\ UNCHANGED <<sink, error>>
           ELSE /\ Raise("decode")
                /\ UNCHANGED satellite_image
    /\ UNCHANGED <<img_bounds, directory, image_list, image_index, image_df,
                   start_time, end_time, sample_freq, time_range, setups, k,
                   loc, canvas, frames>>

\* Lines 71-89: imshow of the raster, cropped when bounds were given, and the
\* grid point as text.  The crop reads img_bounds[0..3]: a tuple of fewer
\* than four values raises IndexError; values beyond the fourth are not read.
\* imshow raises ValueError for a colour region of no pixels, before the
\* image is added to the axes.
Compose ==
    /\ pc = "compose"
    /\ IF img_bounds # NoBounds /\ Len(img_bounds) < 4
       THEN /\ Raise("crop")
            /\ UNCHANGED canvas
       ELSE LET array == IF img_bounds # NoBounds
                         THEN Crop(img_bounds, satellite_image)
                         ELSE satellite_image
            IN  IF Imshow(array)
                THEN /\ canvas' = [image |-> <<array>>,
                                   text |-> <<time_range[k]>>]
                     /\ pc' = "grab"
                     /\ UNCHANGED <<sink, error>>
                ELSE /\ Raise("imshow")
                     /\ UNCHANGED canvas
    /\ UNCHANGED <<img_bounds, directory, image_list, image_index, image_df,
                   start_time, end_time, sample_freq, time_range, setups, k,
                   loc, satellite_image, frames>>

\* The mutation of GrabFrame that moves on without writing the frame.
GrabFrameDropping ==
    /\ pc = "grab"
    /\ k' = k + 1
    /\ pc' = "loop"
    /\ UNCHANGED <<img_bounds, directory, image_list, image_index, image_df,
                   start_time, end_time, sample_freq, time_range, setups,
                   loc, satellite_image, canvas, frames, sink, error>>

\* Line 91: the canvas is written to the encoder, which may reject it.
GrabFrame ==
    /\ pc = "grab"
    /\ \/ /\ frames' = Append(frames, canvas)
          /\ k' = k + 1
          /\ pc' = "loop"
          /\ UNCHANGED <<sink, error>>
       \/ /\ Raise("sink")
          /\ UNCHANGED <<frames, k>>
    /\ UNCHANGED <<img_bounds, directory, image_list, image_index, image_df,
                   start_time, end_time, sample_freq, time_range, setups,
                   loc, satellite_image, canvas>>

\* Line 60, the grid exhausted: the with block is left and main returns.
Finish ==
    /\ pc = "loop"
    /\ k > Len(time_range)
    /\ sink' = SavingExit(sink, FALSE)
    /\ pc' = "done"
    /\ UNCHANGED <<img_bounds, directory, image_list, image_index, image_df,
                   start_time, end_time, sample_freq, time_range, setups, k,
                   loc, satellite_image, canvas, frames, error>>

Next ==
    \/ ParseBounds
    \/ Glob
    \/ IndexFile
    \/ BuildFrame
    \/ MakeRange
    \/ EnterSaving
    \/ Lookup
    \/ Decode
    \/ Compose
    \/ GrabFrame
    \/ Finish

Spec == Init /\ [][Next]_vars

(***************************************************************************)
(* Vocabulary of the properties.                                           *)
(***************************************************************************)
Index == IndexOf(image_df)

\* The frame has been built and sorted.
Built ==
    /\ pc \notin {"bounds", "glob", "index"}
    /\ ~(pc = "failed" /\ error \in {"bounds", "filename"})

\* The sample grid has been generated.
Ranged == Built /\ pc # "range"

\* The lookup of grid point k has returned position loc.
LookupDone == pc \in {"decode", "compose", "grab"}

\* The lookup of grid point k has raised.
LookupFailed == pc = "failed" /\ error = "lookup"

\* The positions (from 1) of the entry just before and just after t.
Before(index, t) ==
    CHOOSE i \in 1..Len(index) :
        index[i] < t /\ \A j \in 1..Len(index) : index[j] < t => j <= i
After(index, t) ==
    CHOOSE i \in 1..Len(index) :
        index[i] > t /\ \A j \in 1..Len(index) : index[j] > t => i <= j

\* No entry is at t, which lies between two entries at the same distance
\* from both.
Tie(index, t) ==
    /\ \A i \in 1..Len(index) : index[i] # t
    /\ \E i \in 1..Len(index) : index[i] < t
    /\ \E i \in 1..Len(index) : index[i] > t
    /\ t - index[Before(index, t)] = index[After(index, t)] - t

\* The file of the directory that a row's path names.
FileOf(path) == CHOOSE f \in directory : f.name = path

\* The images drawn so far: those of the grabbed frames, and the canvas's.
Drawn ==
    {frames[i].image[1] : i \in 1..Len(frames)}
        \cup (IF pc = "grab" THEN {canvas.image[1]} ELSE {})

\* The first twelve characters are digits that spell a date and a time.
HasTimestampPrefix(name) ==
    /\ Len(name) >= 12
    /\ \A i \in 1..12 : IsDigit(name[i])
    /\ LET month == DigitsValue(SubSeq(name, 5, 6))
           day == DigitsValue(SubSeq(name, 7, 8))
       IN  /\ DigitsValue(SubSeq(name, 1, 4)) >= 1
           /\ month >= 1 /\ month <= 12
           /\ day >= 1
           /\ day <= DaysInMonth(DigitsValue(SubSeq(name, 1, 4)), month)
           /\ DigitsValue(SubSeq(name, 9, 10)) <= 23
           /\ DigitsValue(SubSeq(name, 11, 12)) <= 59

(***************************************************************************)
(* C1.  Nearest-neighbour tie-break.                                       *)
(***************************************************************************)
\* C1, as stated: when the entries just before and just after the grid point
\* are equally far from it, the lookup returns the earlier entry.
C1_TieSelectsEarlier ==
    (LookupDone /\ Tie(Index, time_range[k]))
        => loc + 1 = Before(Index, time_range[k])

\* C1, as amended: on such a tie the lookup never returns the earlier entry.
\* Over an index of pairwise distinct timestamps it returns the later entry;
\* over an index that repeats a timestamp it raises.
C1_TieSelectsLater ==
    ((LookupDone \/ LookupFailed) /\ Tie(Index, time_range[k]))
        => IF IsUnique(Index)
           THEN LookupDone /\ loc + 1 = After(Index, time_range[k])
           ELSE LookupFailed

\* The spec's scenario: index {00:00 -> A, 00:10 -> B}, grid point 00:05,
\* and the lookup has returned B.
C1_Witness ==
    /\ LookupDone
    /\ Len(image_df) = 2
    /\ image_df[1] = [ts |-> T0, path |-> NameA]
    /\ image_df[2] = [ts |-> T0 + 10, path |-> NameB]
    /\ time_range[k] = T0 + 5
    /\ Tie(Index, time_range[k])
    /\ loc = 1

(***************************************************************************)
(* C2.  Nearest-neighbour minimality.                                      *)
(***************************************************************************)
\* C2, as stated: over every non-empty index, repeated timestamps included,
\* the lookup succeeds and returns an entry at least as near to the grid
\* point as every other entry.
C2_LookupSucceedsMinimal ==
    ((LookupDone \/ LookupFailed) /\ image_df # << >>)
        => /\ LookupDone
           /\ \A x \in 1..Len(image_df) :
                Abs(time_range[k] - Index[loc + 1])
                    <= Abs(time_range[k] - Index[x])

(***************************************************************************)
(* C3.  Boundary selection.                                                *)
(***************************************************************************)
\* C3, as stated: over every non-empty index, a grid point before the first
\* timestamp selects the first entry and one after the last timestamp
\* selects the last entry.
C3_BoundarySelection ==
    ((LookupDone \/ LookupFailed) /\ image_df # << >>)
        => /\ time_range[k] < Index[1] => (LookupDone /\ loc = 0)
           /\ time_range[k] > Index[Len(Index)]
                => (LookupDone /\ loc = Len(Index) - 1)

(***************************************************************************)
(* C4.  Order preservation.                                                *)
(***************************************************************************)
\* C4: the grabbed frames are a prefix of the sample grid, the i-th frame
\* showing the i-th grid point as text over the image nearest to it; inside
\* the loop one frame has been grabbed per grid point passed, and a run that
\* completes has grabbed one frame per grid point.
C4_OrderPreservation ==
    /\ Len(frames) <= Len(time_range)
    /\ \A i \in 1..Len(frames) :
        /\ frames[i].text = <<time_range[i]>>
        /\ Len(frames[i].image) = 1
        /\ GetLoc(Index, time_range[i]).ok
        /\ frames[i].image[1].path
            = image_df[GetLoc(Index, time_range[i]).loc + 1].path
    /\ pc \in {"loop", "decode", "compose", "grab"} => Len(frames) = k - 1
    /\ pc = "done" => Len(frames) = Len(time_range)

\* A completed run of several frames that show different images.
C4_Witness ==
    /\ pc = "done"
    /\ Len(frames) >= 3
    /\ frames[1].image[1].path # frames[Len(frames)].image[1].path

(***************************************************************************)
(* C5.  Sink finalization.                                                 *)
(***************************************************************************)
\* C5: the writer is set up at most once, and before the frame loop; it is
\* open during the loop; and once main has returned or raised, it is not
\* open: a writer that was set up has been finished.
C5_SinkFinalized ==
    /\ setups <= 1
    /\ (setups = 0) <=> (sink = "unopened")
    /\ pc \in {"loop", "decode", "compose", "grab"}
        => (sink = "open" /\ setups = 1)
    /\ frames # << >> => setups = 1
    /\ pc \in {"done", "failed"} => sink # "open"
    /\ (pc \in {"done", "failed"} /\ setups = 1) => sink = "closed"

\* A run aborted by the encoder after a frame was written, the writer
\* finished.
C5_Witness ==
    /\ pc = "failed"
    /\ error = "sink"
    /\ frames # << >>
    /\ sink = "closed"

(***************************************************************************)
(* C6.  Crop rectangle beyond the raster.                                  *)
(***************************************************************************)
\* The bounds are a rectangle: four values (or more, the rest unread), the
\* four of them non-negative.
IsRectangle(bounds) ==
    Len(bounds) >= 4 /\ \A i \in 1..4 : bounds[i] >= 0

\* C6, as stated: no frame built from a region smaller than the rectangle
\* asked for is written.
C6_NoSmallerRegion ==
    IsRectangle(img_bounds)
        => \A i \in 1..Len(frames) :
            /\ frames[i].image[1].height = img_bounds[4] - img_bounds[2]
            /\ frames[i].image[1].width = img_bounds[3] - img_bounds[1]

\* The rows and the columns of the rectangle that lie within a raster.
ClampedHeight(bounds, raster) ==
    Max(Min(bounds[4], raster.height) - Min(bounds[2], raster.height), 0)
ClampedWidth(bounds, raster) ==
    Max(Min(bounds[3], raster.width) - Min(bounds[1], raster.width), 0)

\* C6, as amended: a rectangle of four non-negative bounds that exceeds the
\* raster is clamped to it, rows min(y0,H)..min(y1,H) and columns
\* min(x0,W)..min(x1,W), and the region left is what is drawn and written,
\* smaller than the rectangle asked for.  A region that is left without
\* pixels is drawn only of a greyscale raster; of a colour raster it makes
\* imshow raise, which ends the run, and imshow raises in no other case.
\* The crop itself raises only when the bounds hold fewer than four values.
C6_CropClamped ==
    /\ IsRectangle(img_bounds)
        => \A image \in Drawn :
            LET raster == FileOf(image.path)
            IN  /\ image.height = ClampedHeight(img_bounds, raster)
                /\ image.width = ClampedWidth(img_bounds, raster)
                /\ image.height * image.width = 0 => raster.channels = 1
    /\ (pc = "failed" /\ error = "imshow")
        => /\ img_bounds # NoBounds
           /\ Len(img_bounds) >= 4
           /\ FileOf(satellite_image.path).channels = 3
           /\ IsRectangle(img_bounds)
                => ClampedHeight(img_bounds, FileOf(satellite_image.path))
                    * ClampedWidth(img_bounds, FileOf(satellite_image.path))
                    = 0
           /\ Len(frames) = k - 1
    /\ (pc = "failed" /\ error = "crop")
        => (img_bounds # NoBounds /\ Len(img_bounds) < 4)
    /\ (pc = "grab" /\ img_bounds # NoBounds) => Len(img_bounds) >= 4

\* A run over colour rasters with the rectangle (3,1,8,2): a frame was
\* written from a region narrower than the rectangle, clamped to the wide
\* raster, and then the rectangle lay wholly beyond the small raster,
\* where imshow raised.
C6_Witness ==
    /\ IsRectangle(img_bounds)
    /\ \E i \in 1..Len(frames) :
        /\ img_bounds[3] > FileOf(frames[i].image[1].path).width
        /\ frames[i].image[1].width > 0
        /\ frames[i].image[1].width < img_bounds[3] - img_bounds[1]
    /\ pc = "failed"
    /\ error = "imshow"
    /\ img_bounds[1] >= satellite_image.width

\* The same rectangle over the small greyscale raster: the region without
\* pixels was drawn and the frame written.
GreyscaleEmptyRegionWritten ==
    /\ IsRectangle(img_bounds)
    /\ \E i \in 1..Len(frames) :
        /\ frames[i].image[1].width = 0
        /\ FileOf(frames[i].image[1].path).channels = 1

(***************************************************************************)
(* C7.  Empty index.                                                       *)
(***************************************************************************)
\* C7: with an empty index and a grid of at least one point, the lookup of
\* the first grid point raises and ends the run; no grid point is passed
\* over and no frame is written.
C7_EmptyIndex ==
    (Ranged /\ image_df = << >> /\ Len(time_range) >= 1)
        => /\ frames = << >>
           /\ pc \in {"saving", "loop", "failed"}
           /\ pc = "loop" => k = 1
           /\ pc = "failed" => (error = "lookup" /\ k = 1)

\* The run over an empty directory, ended by the first lookup.
C7_Witness ==
    /\ directory = {}
    /\ image_df = << >>
    /\ Len(time_range) >= 2
    /\ pc = "failed"
    /\ error = "lookup"
    /\ k = 1

(***************************************************************************)
(* C8.  Index ordering.                                                    *)
(***************************************************************************)
\* C8: the frame, once built, is sorted non-decreasing by timestamp and has
\* one row per discovered file, no path twice; and as built, each row pairs
\* a file's path with the timestamp parsed from that file's name.
C8_IndexOrdering ==
    Built
        => /\ IsMonotonicIncreasing(Index)
           /\ Len(image_df) = Cardinality(directory)
           /\ {image_df[i].path : i \in 1..Len(image_df)}
                = {f.name : f \in directory}
           /\ pc = "range"
                => /\ Len(image_df) = Len(image_list)
                   /\ \A i \in 1..Len(image_list) :
                        /\ image_index[i]
                            = ParseFileName(image_list[i].name).val
                        /\ \E j \in 1..Len(image_df) :
                            image_df[j] = [ts |-> image_index[i],
                                           path |-> image_list[i].name]

\* Three files listed latest first, the frame built from them.
C8_Witness ==
    /\ pc = "range"
    /\ Len(image_list) = 3
    /\ image_index[1] > image_index[2]
    /\ image_index[2] > image_index[3]
    /\ image_df[1].path = image_list[3].name

(***************************************************************************)
(* C9.  Shape of the sample grid.                                          *)
(***************************************************************************)
\* The grid of start <= end: strictly increasing from start in steps of the
\* interval, ending at most at end, and at end exactly when end - start is a
\* multiple of the interval.
GridShape ==
    (Ranged /\ start_time <= end_time)
        => /\ Len(time_range) >= 1
           /\ time_range[1] = start_time
           /\ \A i \in 1..(Len(time_range) - 1) :
                time_range[i + 1] - time_range[i] = sample_freq
           /\ time_range[Len(time_range)] <= end_time
           /\ end_time - time_range[Len(time_range)] < sample_freq
           /\ (time_range[Len(time_range)] = end_time)
                <=> ((end_time - start_time) % sample_freq = 0)
           /\ start_time = end_time => Len(time_range) = 1

\* C9, as stated: the grid has that shape, and a run with start = end over a
\* non-empty index, its bounds a rectangle that leaves pixels of the image,
\* its images decodable and its encoder accepting them, ends with a video of
\* exactly one frame.
C9_GridAndSingleFrame ==
    /\ GridShape
    /\ (/\ Ranged
        /\ start_time = end_time
        /\ image_df # << >>
        /\ pc \in {"done", "failed"}
        /\ error \notin {"crop", "imshow", "decode", "sink"})
        => Len(frames) = 1

(***************************************************************************)
(* C10.  Malformed file name.                                              *)
(***************************************************************************)
\* C10, as stated: once a file whose name lacks the twelve-digit date and
\* time prefix has been discovered, the run does not get past indexing: it
\* ends there with the parse error, the writer is never set up and no frame
\* is written.
C10_MalformedAborts ==
    (pc \notin {"bounds", "glob"}
        /\ \E f \in directory : ~HasTimestampPrefix(f.name))
        => /\ pc \in {"index", "failed"}
           /\ pc = "failed" => error = "filename"
           /\ sink = "unopened"
           /\ frames = << >>

(***************************************************************************)
(* What remains of C2, C3 and C9 over an index that repeats no timestamp.  *)
(***************************************************************************)
\* The lookup raises exactly when the index is empty or repeats a timestamp.
LookupFailsOnlyOnEmptyOrRepeated ==
    /\ LookupFailed => (image_df = << >> \/ ~IsUnique(Index))
    /\ LookupDone => (image_df # << >> /\ IsUnique(Index))

\* Over a non-empty index of distinct timestamps the entry returned is at
\* least as near to the grid point as every other entry.
UniqueIndexMinimal ==
    LookupDone
        => \A x \in 1..Len(image_df) :
            Abs(time_range[k] - Index[loc + 1])
                <= Abs(time_range[k] - Index[x])

\* Over a non-empty index of distinct timestamps a grid point before the
\* first entry selects it, and one after the last entry selects that.
UniqueIndexBoundary ==
    LookupDone
        => /\ time_range[k] < Index[1] => loc = 0
           /\ time_range[k] > Index[Len(Index)] => loc = Len(Index) - 1

\* A run with start = end over a non-empty index of distinct timestamps,
\* its bounds a rectangle that leaves pixels of the image, its image
\* decodable and its encoder accepting it, writes one frame.
UniqueIndexSingleFrame ==
    (/\ Ranged
     /\ start_time = end_time
     /\ image_df # << >>
     /\ IsUnique(Index)
     /\ pc \in {"done", "failed"}
     /\ error \notin {"crop", "imshow", "decode", "sink"})
        => (pc = "done" /\ Len(frames) = 1)
====
